---- MODULE Spec2Model ----
(***************************************************************************)
(* A model of the agentic assistant's Gmail client (backend/google/        *)
(* gmail_client.py) and of its draft tools (backend/llm/tools.py).         *)
(*                                                                         *)
(* Python values are modelled as follows.                                  *)
(*   - A str that is a draft id, an error text or a draft body is a tagged *)
(*     pair <<"str", s>>; the bool False is <<"bool", "False">>, so that a *)
(*     field holding either stays comparable.                              *)
(*   - A str holding one address-header entry is a record                  *)
(*     [angle, name, addr, trail]: the text  name <addr>  when angle is    *)
(*     TRUE (followed by a trailing comment when trail is TRUE) and the    *)
(*     bare text addr otherwise (addr = "" is the empty string).           *)
(*   - A subject is the sequence of its words.                             *)
(***************************************************************************)
EXTENDS Integers, Sequences, FiniteSets, TLC

\* ------------------------------------------------------------------ bounds
MaxList == 2     \* longest original To list drawn for a direct create call
MaxCc == 1       \* longest original Cc / Bcc list drawn for a direct create call
MaxMsgs == 2     \* messages in the provider's store
MaxSel == 2      \* longest list the classifier answers with
MaxDrafts == 1   \* drafts created through direct tool calls
MaxEdits == 2    \* successful edits of one draft
MaxEditors == 2  \* edit_existing_draft calls running side by side on one draft
MaxTime == 4     \* latest instant of a busy interval, in hours after the day's start
MaxBusy == 2     \* longest busy list the calendar provider answers with
MaxWindow == 8   \* longest window asked for, in hours (the working day 09:00-17:00)
MaxSend == 2     \* longest draft id list handed to send_drafts
MaxHeld == 2     \* drafts the store holds when send_drafts is called
MaxParts == 3    \* longest top-level parts list of a payload
MaxNest == 1     \* multipart containers wrapped around a part of the list
MaxToolEdits == 2 \* calls of the edit tool in a row

\* ------------------------------------------------------------ Python values
PyStr(s) == <<"str", s>>
PyFalse == <<"bool", "False">>
PyTrue == <<"bool", "True">>
PyNone == <<"NoneType", "None">>

Bare(a) == [angle |-> FALSE, name |-> "", addr |-> a, trail |-> FALSE]
Angle(n, a) == [angle |-> TRUE, name |-> n, addr |-> a, trail |-> FALSE]
Trail(n, a) == [angle |-> TRUE, name |-> n, addr |-> a, trail |-> TRUE]
EmptyStr == Bare("")

Addresses == {"me@x.com", "a@x.com"}
Names == {"N"}
\* the texts an address-header entry can be: bare or wrapped in a display name
Entries == {Bare(a) : a \in Addresses} \cup {Angle(n, a) : n \in Names, a \in Addresses}
\* the texts a From header can be: absent, an entry, or an entry with a trailing comment
FromTexts == Entries \cup {EmptyStr} \cup {Trail(n, a) : n \in Names, a \in Addresses}

SeqsUpTo(S, n) == UNION {[1..m -> S] : m \in 0..n}

MapSeq(f(_), s) == [i \in 1..Len(s) |-> f(s[i])]
Range(s) == {s[i] : i \in 1..Len(s)}

\* ----------------------------------------------------- address conversions
\* mutant: the display-name wrapper is not stripped
extract_email_only_raw(s) == s

\* re.search(r'<(.+@.+)>', s): group(1) when matched, else s unchanged
extract_email_only(s) == IF s.angle /\ s.addr \in Addresses THEN Bare(s.addr) ELSE s

\* "" -> ("", ""); re.match(r'^(.*?)\s*<(.+@.+)>$', s): (name, address) when the
\* whole text matches, otherwise ("", s.strip())
parse_email_address(s) ==
    IF s = EmptyStr THEN <<"", EmptyStr>>
    ELSE IF s.angle /\ ~s.trail /\ s.addr \in Addresses THEN <<s.name, Bare(s.addr)>>
    ELSE <<"", s>>

\* ------------------------------------------------------------------- Email
\* Email.__init__ defaults
NewEmail ==
    [id |-> "", thread_id |-> "", message_id |-> "", subject |-> <<>>,
     from_email |-> EmptyStr, from_name |-> "", from_address |-> EmptyStr,
     to |-> <<>>, cc |-> <<>>, bcc |-> <<>>,
     draft |-> PyStr(""), draft_id |-> PyStr(""),
     ready_to_send |-> FALSE, status |-> ""]

\* the header-derived part of create_email_from_message
EmailFrom(id, subject, from, to, cc, bcc) ==
    [NewEmail EXCEPT !.id = id, !.thread_id = id, !.message_id = id,
                     !.subject = subject, !.from_email = from,
                     !.from_name = parse_email_address(from)[1],
                     !.from_address = parse_email_address(from)[2],
                     !.to = to, !.cc = cc, !.bcc = bcc]

\* --------------------------------------------------- create_draft_from_email
NoRecipientsMsg == "ERROR CREATING DRAFT: No recipients found"

StartsWithRe(subject) == Len(subject) > 0 /\ subject[1] \in {"Re:", "RE:", "re:", "rE:"}
ReplySubject(subject) == IF StartsWithRe(subject) THEN subject ELSE <<"Re:">> \o subject

Without(s, u) ==
    LET Keep(x) == x # u IN SelectSeq(s, Keep)

\* mutant: the sender is put in front of the To list
ReplyAllTo_senderFirst(email, user) ==
    Without(<<email.from_address>> \o MapSeq(extract_email_only, email.to), user)

\* orig_to: cleaned To list, sender appended, user removed
ReplyAllTo(email, user) == Without(MapSeq(extract_email_only, email.to) \o <<email.from_address>>, user)
ReplyAllCc(email, user) == Without(MapSeq(extract_email_only, email.cc), user)
ReplyAllBcc(email, user) == Without(MapSeq(extract_email_only, email.bcc), user)

\* The whole call: profileOk / createOk are the provider's outcomes of
\* getProfile and drafts.create, newId the id drafts.create returns.
create_draft_from_email(email, user, profileOk, createOk, newId) ==
    LET to == ReplyAllTo(email, Bare(user))
        cc == ReplyAllCc(email, Bare(user))
        bcc == ReplyAllBcc(email, Bare(user))
        message == [body |-> email.draft, to |-> to, cc |-> cc, bcc |-> bcc,
                    subject |-> ReplySubject(email.subject),
                    in_reply_to |-> email.message_id, threadId |-> email.thread_id]
        nothing == [ret |-> PyFalse, created |-> FALSE, resolved |-> FALSE,
                    to |-> <<>>, cc |-> <<>>, bcc |-> <<>>, calls |-> <<"getProfile">>,
                    message |-> [body |-> PyStr("")]]
    IN  IF ~profileOk THEN nothing
        ELSE IF to = <<>>
             THEN [nothing EXCEPT !.ret = PyStr(NoRecipientsMsg), !.resolved = TRUE,
                                  !.cc = cc, !.bcc = bcc]
        ELSE IF ~createOk
             THEN [nothing EXCEPT !.resolved = TRUE, !.to = to, !.cc = cc, !.bcc = bcc,
                                  !.calls = <<"getProfile", "drafts.create">>]
        ELSE [ret |-> PyStr(newId), created |-> TRUE, resolved |-> TRUE,
              to |-> to, cc |-> cc, bcc |-> bcc,
              calls |-> <<"getProfile", "drafts.create">>, message |-> message]

VARIABLES
    user_email,          \* the authenticated user's address (getProfile)
    unread,              \* provider: ids of the messages carrying the UNREAD label
    drafts,              \* provider: the draft store, draft id -> message
    nextDraft,           \* provider: how many draft ids it has handed out
    email,               \* the Email handed to a direct create_draft_from_email call
    sent,                \* provider: ids of the drafts it has sent
    life,                \* per draft id, the operations that succeeded on it, in order
    op,                  \* the last edit or send call: its draft id and what it returned
    cd,                  \* the last create_draft_from_email call: argument and outcome
    pc,                  \* create_drafts_for_unread_emails: position in the function
    email_ids,           \* its locals, named as in the code
    email_objs,
    emails_dict,
    email_ids_from_llm,
    draft_messages,
    k,                   \* how many entries of email_ids_from_llm the for loop has taken
    draft_response,
    draft_id,
    returned,            \* the value the call returned, once it has
    log,                 \* the steps 1-4 the run has executed, in execution order
    genCalls,            \* the generator invocations: the entry and the context passed
    classifyCalls,       \* the number of classifier invocations
    cal,                 \* find_free_time: its arguments, locals and result
    edits,               \* edit_existing_draft calls running side by side
    tool,                \* the send_drafts or edit tool call: arguments, locals, result
    msg,                 \* create_email_from_message: the raw message and the Email
    ev                   \* _raw_to_event: the raw event and the Event

provider == <<user_email, unread, drafts, nextDraft>>
direct == <<email, sent, life, op>>
locals == <<email_ids, email_objs, emails_dict, email_ids_from_llm, draft_messages, k,
            draft_response, draft_id, returned>>
history == <<log, genCalls, classifyCalls>>
oneCall == <<tool, msg, ev>>
vars == <<provider, direct, cd, pc, locals, history, cal, edits, oneCall>>

NoCall == [called |-> FALSE]
\* no find_free_time call is in progress
NoSweep == [called |-> FALSE]
\* no edit_existing_draft call is in progress
NoEdits == [called |-> FALSE]
\* no tool call, no parse, no event conversion is in progress
Idle == [called |-> FALSE]
NoOp == [name |-> "none"]
NotReturned == [returned |-> FALSE]

IdNames == <<"m1", "m2", "m3", "m4">>
MsgIds == {IdNames[i] : i \in 1..MaxMsgs}
DraftNames == <<"r1", "r2", "r3", "r4", "r5">>
DraftIds == {DraftNames[i] : i \in 1..5}
Texts == {"t1", "t2"}
\* a draft text that begins and ends with white space
PaddedTexts == {" t1 "}

\* str.strip()
strip(t) == IF t = " t1 " THEN "t1" ELSE t

\* extract_body_content on the single text/plain part the client's drafts are
\* made of: the part's text, stripped
extract_body_content(body) == PyStr(strip(body[2]))

\* The provider's message store: what messages().get returns for each id, parsed.
\*   m1, m4: a reply-all with recipients; m2: every address is the user's own;
\*   m3: no header block at all.
Inbox ==
    [id \in MsgIds |->
        CASE id = "m1" -> EmailFrom(id, <<"Hello">>, Angle("N", "a@x.com"), <<Bare("me@x.com")>>, <<>>, <<>>)
          [] id = "m2" -> EmailFrom(id, <<"Re:", "Hi">>, Bare("me@x.com"), <<Angle("N", "me@x.com")>>, <<Bare("me@x.com")>>, <<>>)
          [] id = "m3" -> EmailFrom(id, <<>>, EmptyStr, <<>>, <<>>, <<>>)
          [] OTHER -> EmailFrom(id, <<"Plan">>, Bare("a@x.com"), <<Bare("me@x.com"), Angle("N", "a@x.com")>>, <<Angle("N", "me@x.com")>>, <<>>)]

InitProvider ==
    /\ unread = MsgIds
    /\ drafts = <<>>
    /\ nextDraft = 0

InitCalls ==
    /\ tool = Idle
    /\ msg = Idle
    /\ ev = Idle

InitTools ==
    /\ sent = {}
    /\ life = [d \in DraftIds |-> <<>>]
    /\ op = NoOp

InitLocals ==
    /\ email_ids = <<>>
    /\ email_objs = <<>>
    /\ emails_dict = <<>>
    /\ email_ids_from_llm = <<>>
    /\ draft_messages = <<>>
    /\ k = 0
    /\ draft_response = PyStr("")
    /\ draft_id = PyStr("")
    /\ returned = NotReturned
    /\ log = <<>>
    /\ genCalls = <<>>
    /\ classifyCalls = 0

\* ------------------------------------------- direct calls of the client
InitResolve ==
    /\ user_email \in Addresses
    /\ InitProvider
    /\ InitLocals
    /\ InitTools
    /\ InitCalls
    /\ cal = NoSweep
    /\ edits = NoEdits
    /\ pc = "direct"
    /\ \E to \in SeqsUpTo(Entries, MaxList), cc \in SeqsUpTo(Entries, MaxCc),
          bcc \in SeqsUpTo(Entries, MaxCc), from \in FromTexts :
          email = [EmailFrom("m1", <<"Hello">>, from, to, cc, bcc) EXCEPT !.draft = PyStr("t1")]
    /\ cd = NoCall

\* the provider's half of drafts.create: store the message under a fresh id
ProviderCreate(out) ==
    IF out.created
    THEN /\ drafts' = (out.ret[2] :> out.message) @@ drafts
         /\ nextDraft' = nextDraft + 1
    ELSE UNCHANGED <<drafts, nextDraft>>

CallCreateDraft(profileOk, createOk) ==
    /\ pc = "direct"
    /\ ~cd.called
    /\ LET out == create_draft_from_email(email, user_email, profileOk, createOk,
                                          DraftNames[nextDraft + 1])
       IN /\ cd' = [called |-> TRUE, email |-> email, user |-> user_email, out |-> out]
          /\ ProviderCreate(out)
    /\ UNCHANGED <<oneCall, edits, cal, user_email, unread, direct, pc, locals, history>>

NextResolve ==
    \E profileOk \in BOOLEAN :
        \E createOk \in (IF profileOk THEN BOOLEAN ELSE {TRUE}) :
            CallCreateDraft(profileOk, createOk)

SpecResolve == InitResolve /\ [][NextResolve]_vars

\* ------------------------------------- create_drafts_for_unread_emails
UnknownId == "unknown-id"      \* a well-formed id that is not a key of the batch
NonId == "non-id"              \* a list entry that is no id at all
Malformed == <<"malformed">>     \* a response ast.literal_eval or the for loop rejects
ClassifierOutputs == SeqsUpTo(MsgIds \cup {UnknownId, NonId}, MaxSel)
GeneratorFails == "generator-fails"

\* a batch: the keys of email_info_dict, in insertion order
Batches == {b \in SeqsUpTo(MsgIds, MaxMsgs) :
               \A i, j \in 1..Len(b) : i < j => \E x, y \in 1..MaxMsgs :
                   x < y /\ IdNames[x] = b[i] /\ IdNames[y] = b[j]}

\* mutant: the key is not stored
SetKey_skip(entry, key, val) == entry

\* d[key] = val on a dict
SetKey(entry, key, val) == (key :> val) @@ entry

\* lines 81-95: the summary of one fetched message
Summary(e, spec) ==
    [subject |-> e.subject, from_address |-> e.from_address, to |-> e.to,
     draft |-> PyStr(""), draft_specications |-> spec]

InitialMessages == <<[role |-> "user", content |-> <<"follow the prompts">>]>>
Request(email_id) == [role |-> "user", content |-> <<"draft_prompt", email_id>>]
Response(text) == [role |-> "assistant", content |-> <<"draft", text>>]

\* mutant: the message is marked as read before its draft is created
StepAfter_markFirst(step) ==
    CASE step = "generate" -> "attach"
      [] step = "attach" -> "mark"
      [] step = "mark" -> "create"
      [] step = "create" -> "record"
      [] step = "record" -> "loop"

\* mutant: the message is never marked as read
StepAfter_noMark(step) ==
    CASE step = "generate" -> "attach"
      [] step = "attach" -> "create"
      [] step = "create" -> "record"
      [] step = "record" -> "loop"
      [] step = "mark" -> "loop"

\* the order of the statements of one loop iteration after the generator answered
StepAfter(step) ==
    CASE step = "generate" -> "attach"
      [] step = "attach" -> "create"
      [] step = "create" -> "record"
      [] step = "record" -> "mark"
      [] step = "mark" -> "loop"

\* mutant: a draft creation that failed raises out of the loop
AfterCreate_raise(ret) ==
    IF ret = PyFalse \/ ret = PyStr(NoRecipientsMsg) THEN "raised" ELSE "record"

\* line 135: the call returns a value whatever happened; the loop goes on
AfterCreate(ret) == StepAfter("create")

\* line 145: the result of mark_as_read is dropped; the loop goes on
AfterMark(ack) == StepAfter("mark")

\* line 136: the value create_draft_from_email returned is stored as it is
RecordedDraftId(ret) == ret

\* mutant: the response is not appended to the context
ContextAfterRecord_drop(ctx, text) == ctx

\* line 139: the generator's response joins the shared context
ContextAfterRecord(ctx, text) == Append(ctx, Response(text))

\* mutant: only the entries that got a draft_id are returned
ReturnValue_drafted(d) == [id \in {x \in DOMAIN d : "draft_id" \in DOMAIN d[x]} |-> d[id]]

\* line 148
ReturnValue(d) == d

Init ==
    /\ user_email = "me@x.com"
    /\ InitProvider
    /\ InitLocals
    /\ InitTools
    /\ InitCalls
    /\ email = NewEmail
    /\ cd = NoCall
    /\ cal = NoSweep
    /\ edits = NoEdits
    /\ pc = "start"

\* lines 70-97: the call, and the fetch of every message of the batch
Start(batch, fetchOk) ==
    /\ pc = "start"
    /\ fetchOk \/ batch # <<>>
    /\ email_ids' = batch
    /\ IF fetchOk
       THEN /\ email_objs' = [id \in Range(batch) |-> Inbox[id]]
            /\ emails_dict' = [id \in Range(batch) |-> Summary(Inbox[id], "info")]
            /\ pc' = "classify"
       ELSE /\ pc' = "raised"      \* fetch_email_by_msg_id(...)[0] on an empty list
            /\ UNCHANGED <<email_objs, emails_dict>>
    /\ UNCHANGED <<oneCall, edits, cal, provider, direct, cd, email_ids_from_llm, draft_messages, k,
                   draft_response, draft_id, returned, history>>

\* lines 99-116: one classifier round trip, its answer parsed
Classify(answer) ==
    /\ pc = "classify"
    /\ classifyCalls' = classifyCalls + 1
    /\ IF answer = Malformed
       THEN /\ pc' = "raised"
            /\ UNCHANGED <<email_ids_from_llm, draft_messages>>
       ELSE /\ email_ids_from_llm' = answer
            /\ draft_messages' = InitialMessages
            /\ pc' = "loop"
    /\ UNCHANGED <<oneCall, edits, cal, provider, direct, cd, email_ids, email_objs, emails_dict, k,
                   draft_response, draft_id, returned, log, genCalls>>

\* lines 120-127: the next entry of the list, its prompt, one generator round trip
Generate(answer) ==
    /\ pc = "loop"
    /\ k < Len(email_ids_from_llm)
    /\ k' = k + 1
    /\ LET email_id == email_ids_from_llm[k + 1]
       IN IF email_id \notin DOMAIN emails_dict
          THEN /\ pc' = "raised"       \* emails_dict[email_id]
               /\ UNCHANGED <<draft_messages, draft_response, genCalls>>
          ELSE /\ draft_messages' = Append(draft_messages, Request(email_id))
               /\ genCalls' = Append(genCalls, [entry |-> k + 1, id |-> email_id,
                                                context |-> draft_messages',
                                                answer |-> answer])
               /\ IF answer = GeneratorFails
                  THEN /\ pc' = "raised"
                       /\ UNCHANGED draft_response
                  ELSE /\ draft_response' = PyStr(answer)
                       /\ pc' = StepAfter("generate")
    /\ UNCHANGED <<oneCall, edits, cal, provider, direct, cd, email_ids, email_objs, emails_dict,
                   email_ids_from_llm, draft_id, returned, log, classifyCalls>>

CurrentId == email_ids_from_llm[k]

\* lines 129-132
Attach ==
    /\ pc = "attach"
    /\ emails_dict' = [emails_dict EXCEPT ![CurrentId].draft = draft_response]
    /\ email_objs' = [email_objs EXCEPT ![CurrentId].draft = draft_response]
    /\ log' = Append(log, [step |-> "attach", entry |-> k, id |-> CurrentId])
    /\ pc' = StepAfter("attach")
    /\ UNCHANGED <<oneCall, edits, cal, provider, direct, cd, email_ids, email_ids_from_llm, draft_messages, k,
                   draft_response, draft_id, returned, genCalls, classifyCalls>>

\* line 135
Create(profileOk, createOk) ==
    /\ pc = "create"
    /\ LET out == create_draft_from_email(email_objs[CurrentId], user_email, profileOk,
                                          createOk, DraftNames[nextDraft + 1])
       IN /\ cd' = [called |-> TRUE, email |-> email_objs[CurrentId], user |-> user_email,
                    out |-> out]
          /\ ProviderCreate(out)
          /\ draft_id' = out.ret
          /\ pc' = AfterCreate(out.ret)
          /\ log' = Append(log, [step |-> "create", entry |-> k, id |-> CurrentId,
                                  created |-> out.created])
    /\ UNCHANGED <<oneCall, edits, cal, user_email, unread, direct, email_ids, email_objs, emails_dict,
                   email_ids_from_llm, draft_messages, k, draft_response, returned,
                   genCalls, classifyCalls>>

\* lines 136-142
Record ==
    /\ pc = "record"
    /\ email_objs' = [email_objs EXCEPT ![CurrentId].draft_id = RecordedDraftId(draft_id)]
    /\ emails_dict' = [emails_dict EXCEPT ![CurrentId] =
            SetKey(SetKey(@, "draft_id", RecordedDraftId(draft_id)),
                   "ready_to_send", email_objs[CurrentId].ready_to_send)]
    /\ draft_messages' = ContextAfterRecord(draft_messages, draft_response[2])
    /\ log' = Append(log, [step |-> "record", entry |-> k, id |-> CurrentId])
    /\ pc' = StepAfter("record")
    /\ UNCHANGED <<oneCall, edits, cal, provider, direct, cd, email_ids, email_ids_from_llm, k,
                   draft_response, draft_id, returned, genCalls, classifyCalls>>

\* GmailClient.mark_as_read: the provider drops the UNREAD label, or refuses
mark_as_read(labels, id, ack) == IF ack THEN labels \ {id} ELSE labels

\* line 145
Mark(ack) ==
    /\ pc = "mark"
    /\ unread' = mark_as_read(unread, CurrentId, ack)
    /\ log' = Append(log, [step |-> "mark", entry |-> k, id |-> CurrentId, ack |-> ack])
    /\ pc' = AfterMark(ack)
    /\ UNCHANGED <<oneCall, edits, cal, user_email, drafts, nextDraft, direct, cd, locals, genCalls, classifyCalls>>

\* line 148
Return ==
    /\ pc = "loop"
    /\ k = Len(email_ids_from_llm)
    /\ returned' = [returned |-> TRUE, value |-> ReturnValue(emails_dict)]
    /\ pc' = "done"
    /\ UNCHANGED <<oneCall, edits, cal, provider, direct, cd, email_ids, email_objs, emails_dict,
                   email_ids_from_llm, draft_messages, k, draft_response, draft_id, history>>

Next ==
    \/ \E batch \in Batches, fetchOk \in BOOLEAN : Start(batch, fetchOk)
    \/ \E answer \in ClassifierOutputs \cup {Malformed} : Classify(answer)
    \/ \E answer \in Texts \cup {GeneratorFails} : Generate(answer)
    \/ Attach
    \/ \E profileOk \in BOOLEAN :
          \E createOk \in (IF profileOk THEN BOOLEAN ELSE {TRUE}) : Create(profileOk, createOk)
    \/ Record
    \/ \E ack \in BOOLEAN : Mark(ack)
    \/ Return

Spec == Init /\ [][Next]_vars

\* ------------------------------------------------- the draft's life cycle
EditErrNotFound == "Error editing draft: Draft not found or access denied"
EditErrNetwork == "Error editing draft: Network or API error"
EditErrUpdate == "Error editing draft: Update failed"
EditErrNetworkUpdate == "Error editing draft: Network or API error during update"
\* the texts of the outer handlers, lines 402-407
EditErrOuter == "Error editing draft"
EditErrUnexpected == "Unexpected error editing draft"

\* a text MIMEText cannot encode (a lone surrogate): building the message raises
\* UnicodeEncodeError
LoneSurrogate == "<U+D800>"
Encodable(body) == body[2] # LoneSurrogate

\* the failure kind each error text of edit_existing_draft names
EditKind(text) ==
    CASE text = EditErrNotFound -> "DraftNotFound"
      [] text = EditErrUpdate -> "ProviderError"
      [] text \in {EditErrNetwork, EditErrNetworkUpdate} -> "NetworkError"
      [] OTHER -> "none"

\* What a provider round trip on a draft id does: "ok", "http" (an HttpError) or
\* "other" (any other exception).  A draft the store does not hold cannot be
\* fetched, updated or sent: the provider answers with an HttpError.
Outcomes == {"ok", "http", "other"}
ProviderAnswer(store, id, outcome) ==
    IF outcome = "ok" /\ id \notin DOMAIN store THEN "http" ELSE outcome

\* parse_email_list: split on commas, strip, drop the empty entries
parse_email_list(header) ==
    LET NonEmpty(x) == x # EmptyStr IN SelectSeq(header, NonEmpty)

\* lines 351-374: an override that is empty (falsy) keeps the draft's value
Patched(new, old, empty) == IF new # empty THEN new ELSE old

NoOverrides == [body |-> PyStr(""), subject |-> <<>>, to |-> <<>>, cc |-> <<>>, bcc |-> <<>>]
Overrides ==
    {NoOverrides,
     [NoOverrides EXCEPT !.body = PyStr("t9")],
     [NoOverrides EXCEPT !.subject = <<"New">>, !.to = <<Bare("b@x.com")>>,
                         !.cc = <<Bare("c@x.com")>>, !.bcc = <<Bare("a@x.com")>>]}

\* mutant: the exception handlers report success too
SendResult_always(answer) == PyTrue

\* lines 422-428: True when the send round trip returned, False on any exception
SendResult(answer) == IF answer = "ok" THEN PyTrue ELSE PyFalse

\* GmailClient.send_draft, the whole call
send_draft(store, id, outcome) ==
    LET answer == ProviderAnswer(store, id, outcome)
    IN  [ret |-> SendResult(answer),
         store |-> IF answer = "ok" THEN [d \in DOMAIN store \ {id} |-> store[d]] ELSE store,
         sent |-> answer = "ok",
         calls |-> <<"drafts.send">>]

\* lines 347-391: the message built from the draft fetched and the overrides.
\* The draft the code builds carries no Message-ID of its own, so the edited
\* draft gets no In-Reply-To.
EditedMessage(old, ov) ==
    [body |-> Patched(ov.body, extract_body_content(old.body), PyStr("")),
     subject |-> Patched(ov.subject, old.subject, <<>>),
     to |-> Patched(ov.to, parse_email_list(old.to), <<>>),
     cc |-> Patched(ov.cc, parse_email_list(old.cc), <<>>),
     bcc |-> Patched(ov.bcc, parse_email_list(old.bcc), <<>>),
     in_reply_to |-> "", threadId |-> old.threadId]

\* GmailClient.edit_existing_draft, the whole call.
edit_existing_draft(store, id, ov, getOutcome, updateOutcome) ==
    LET got == ProviderAnswer(store, id, getOutcome)
        updated == ProviderAnswer(store, id, updateOutcome)
        message == EditedMessage(store[id], ov)
        failed(text, calls) == [ret |-> PyStr(text), store |-> store, calls |-> calls]
    IN  IF got = "http" THEN failed(EditErrNotFound, <<"drafts.get">>)
        ELSE IF got = "other" THEN failed(EditErrNetwork, <<"drafts.get">>)
        ELSE IF ~Encodable(ov.body) THEN failed(EditErrUnexpected, <<"drafts.get">>)
        ELSE IF updated = "http" THEN failed(EditErrUpdate, <<"drafts.get", "drafts.update">>)
        ELSE IF updated = "other"
             THEN failed(EditErrNetworkUpdate, <<"drafts.get", "drafts.update">>)
        ELSE [ret |-> PyStr(id), store |-> [store EXCEPT ![id] = message],
              calls |-> <<"drafts.get", "drafts.update">>]

\* the draft ids a caller may name: those the provider can hand out, and one more
CallableDraftIds == {DraftNames[i] : i \in 1..(MaxDrafts + 1)}

InitLife ==
    /\ user_email = "me@x.com"
    /\ InitProvider
    /\ InitLocals
    /\ InitTools
    /\ InitCalls
    /\ email = NewEmail
    /\ cd = NoCall
    /\ cal = NoSweep
    /\ edits = NoEdits
    /\ pc = "tools"

\* mutant: the tool marks the Message as sent whatever send_draft returned
StatusAfterSend_unconditional(status, ret) == "sent"

\* send_drafts keeps the bool send_draft returned and writes no Email: advancing
\* status is left to the caller of the tool
StatusAfterSend(status, ret) == status

\* the draft texts of the direct tool calls: one plain, one padded with white space
LifeTexts == {"t1"} \cup PaddedTexts

\* a create_draft_from_email call for a message of the store; email is the Email
\* object the caller handed over, as the call leaves it
ToolCreate(id, text, profileOk, createOk) ==
    /\ pc = "tools"
    /\ nextDraft < MaxDrafts
    /\ LET e == [Inbox[id] EXCEPT !.draft = PyStr(text)]
           out == create_draft_from_email(e, user_email, profileOk, createOk,
                                          DraftNames[nextDraft + 1])
       IN /\ cd' = [called |-> TRUE, email |-> e, user |-> user_email, out |-> out]
          /\ ProviderCreate(out)
          /\ life' = IF out.created THEN [life EXCEPT ![out.ret[2]] = <<"created">>] ELSE life
          /\ email' = e
    /\ UNCHANGED <<oneCall, edits, cal, user_email, unread, sent, op, pc, locals, history>>

\* an edit_existing_draft call
ToolEdit(id, ov, getOutcome, updateOutcome) ==
    /\ pc = "tools"
    /\ Len(life[id]) <= MaxEdits
    /\ LET out == edit_existing_draft(drafts, id, ov, getOutcome, updateOutcome)
       IN /\ drafts' = out.store
          /\ op' = IF out.ret = PyStr(id)
                   THEN [name |-> "edit", id |-> id, ret |-> out.ret, calls |-> out.calls,
                         ov |-> ov, before |-> drafts[id]]
                   ELSE [name |-> "edit", id |-> id, ret |-> out.ret, calls |-> out.calls,
                         held |-> id \in DOMAIN drafts, get |-> getOutcome,
                         update |-> updateOutcome]
          /\ life' = IF out.ret = PyStr(id) THEN [life EXCEPT ![id] = Append(@, "edited")]
                     ELSE life
    /\ UNCHANGED <<oneCall, edits, cal, user_email, unread, nextDraft, email, sent, cd, pc, locals, history>>

\* a send_draft call
ToolSend(id, outcome) ==
    /\ pc = "tools"
    /\ LET out == send_draft(drafts, id, outcome)
       IN /\ drafts' = out.store
          /\ sent' = IF out.sent THEN sent \cup {id} ELSE sent
          /\ op' = [name |-> "send", id |-> id, ret |-> out.ret, calls |-> out.calls]
          /\ life' = IF out.ret = PyTrue THEN [life EXCEPT ![id] = Append(@, "sent")]
                     ELSE life
          /\ email' = [email EXCEPT !.status = StatusAfterSend(@, out.ret)]
    /\ UNCHANGED <<oneCall, edits, cal, user_email, unread, nextDraft, cd, pc, locals, history>>

NextLife ==
    \/ \E id \in MsgIds, text \in LifeTexts, profileOk \in BOOLEAN :
          \E createOk \in (IF profileOk THEN BOOLEAN ELSE {TRUE}) :
              ToolCreate(id, text, profileOk, createOk)
    \/ \E id \in CallableDraftIds, ov \in Overrides, g \in Outcomes :
          \E u \in (IF g = "ok" THEN Outcomes ELSE {"ok"}) : ToolEdit(id, ov, g, u)
    \/ \E id \in CallableDraftIds, outcome \in Outcomes : ToolSend(id, outcome)

SpecLife == InitLife /\ [][NextLife]_vars

\* ------------------------------------------ edits of one draft, interleaved
\* Each caller runs one edit_existing_draft call on the same draft id; the call's
\* two round trips are separate steps, so the calls interleave.
Editors == 1..MaxEditors
RaceDraft == DraftNames[1]
IdleEditor == [pc |-> "idle"]

\* mutant: the provider rejects an update built from a version it no longer holds
UpdateAnswer_token(store, id, fetched, outcome) ==
    IF outcome = "ok" /\ (id \notin DOMAIN store \/ store[id] # fetched) THEN "http"
    ELSE outcome

\* lines 385-395: the update carries the draft id and the new message only, no
\* version of the draft fetched, so the provider answers whatever the store holds
UpdateAnswer(store, id, fetched, outcome) == ProviderAnswer(store, id, outcome)

\* the store holds one draft, created by the client for message m1
InitRace ==
    /\ user_email = "me@x.com"
    /\ unread = MsgIds
    /\ \E text \in Texts \cup PaddedTexts :
          drafts = (RaceDraft :>
                      create_draft_from_email([Inbox["m1"] EXCEPT !.draft = PyStr(text)],
                                              user_email, TRUE, TRUE, RaceDraft).message)
    /\ nextDraft = 1
    /\ InitLocals
    /\ InitTools
    /\ InitCalls
    /\ email = NewEmail
    /\ cd = NoCall
    /\ cal = NoSweep
    /\ edits = [called |-> TRUE, ed |-> [e \in Editors |-> IdleEditor], writes |-> <<>>]
    /\ pc = "race"

\* lines 338-347: the call and its fetch of the draft
EditFetch(e, ov, outcome) ==
    /\ pc = "race"
    /\ edits.ed[e].pc = "idle"
    /\ LET got == ProviderAnswer(drafts, RaceDraft, outcome)
       IN edits' = [edits EXCEPT !.ed[e] =
              IF got = "ok"
              THEN [pc |-> "fetched", ov |-> ov, draft_obj |-> drafts[RaceDraft], get |-> outcome]
              ELSE [pc |-> "returned", ov |-> ov, get |-> outcome, update |-> "none",
                    ret |-> PyStr(IF got = "http" THEN EditErrNotFound ELSE EditErrNetwork)]]
    /\ UNCHANGED <<provider, direct, cd, pc, locals, history, cal, oneCall>>

\* lines 349-401: the message built from what was fetched, its update, the return
EditUpdate(e, outcome) ==
    /\ pc = "race"
    /\ edits.ed[e].pc = "fetched"
    /\ LET me == edits.ed[e]
           message == EditedMessage(me.draft_obj, me.ov)
           updated == UpdateAnswer(drafts, RaceDraft, me.draft_obj, outcome)
           ret == IF updated = "ok" THEN PyStr(RaceDraft)
                  ELSE IF updated = "http" THEN PyStr(EditErrUpdate)
                  ELSE PyStr(EditErrNetworkUpdate)
       IN /\ drafts' = IF updated = "ok" THEN [drafts EXCEPT ![RaceDraft] = message] ELSE drafts
          /\ edits' = [edits EXCEPT
                  !.ed[e] = [pc |-> "returned", ov |-> me.ov, draft_obj |-> me.draft_obj,
                             get |-> me.get, update |-> outcome, ret |-> ret],
                  !.writes = IF updated = "ok"
                             THEN Append(@, [editor |-> e, payload |-> message]) ELSE @]
    /\ UNCHANGED <<user_email, unread, nextDraft, direct, cd, pc, locals, history, cal, oneCall>>

NextRace ==
    \/ \E e \in Editors, ov \in Overrides, outcome \in Outcomes : EditFetch(e, ov, outcome)
    \/ \E e \in Editors, outcome \in Outcomes : EditUpdate(e, outcome)

SpecRace == InitRace /\ [][NextRace]_vars

\* ---------------------------------------------------------- find_free_time
\* Instants are whole hours counted from 09:00 of the day; a duration is a
\* positive number of hours.  A busy interval is the record [start, end] that
\* datetime.fromisoformat reads from the provider's answer.
Intervals(lo, hi) == {iv \in [start : lo..hi, end : lo..hi] : iv.start < iv.end}
Min(a, b) == IF a <= b THEN a ELSE b
max(a, b) == IF a >= b THEN a ELSE b

\* the windows a caller asks for: start_date before end_date, the end within the
\* horizon of the busy intervals or at the longest window's end
Windows == {w \in (0..MaxTime) \X ((1..MaxTime) \cup {MaxWindow}) : w[1] < w[2]}
Durations == (1..(MaxTime + 1)) \cup {MaxWindow}

\* what freebusy().query answers for the window [timeMin, timeMax]: intervals
\* inside the window, in any order, overlapping or not
BusyAnswers(timeMin, timeMax) == SeqsUpTo(Intervals(timeMin, Min(timeMax, MaxTime)), MaxBusy)

\* mutant: a slot is emitted wherever the cursor stands
Fits_always(cursor, duration, limit) == TRUE

\* lines 329 and 333: the test that a slot of the duration ends by the limit
Fits(cursor, duration, limit) == cursor + duration <= limit

\* mutant: the whole gap up to the limit is handed out as one slot
SlotAt_wholeGap(cursor, duration, limit) == [start |-> cursor, end |-> limit]

\* lines 330 and 334: the slot appended
SlotAt(cursor, duration, limit) == [start |-> cursor, end |-> cursor + duration]

\* mutant: the cursor jumps to the end of the busy interval just read
Advance_noMax(cursor, end) == end

\* mutant: the cursor stays where it is
Advance_stay(cursor, end) == cursor

\* line 331
Advance(cursor, end) == max(cursor, end)

InitFree ==
    /\ user_email = "me@x.com"
    /\ InitProvider
    /\ InitLocals
    /\ InitTools
    /\ InitCalls
    /\ email = NewEmail
    /\ cd = NoCall
    /\ edits = NoEdits
    /\ pc = "free_query"
    /\ \E w \in Windows, d \in Durations :
          cal = [called |-> TRUE, start_date |-> w[1], end_date |-> w[2],
                 duration_minutes |-> d, busy_slots |-> <<>>, i |-> 0,
                 window_start |-> w[1], cursors |-> <<w[1]>>, free_slots |-> <<>>]

\* lines 316-326: the free/busy round trip, and the locals of the sweep
QueryBusy ==
    /\ pc = "free_query"
    /\ \E answer \in BusyAnswers(cal.start_date, cal.end_date) :
          cal' = [cal EXCEPT !.busy_slots = answer]
    /\ pc' = "free_sweep"
    /\ UNCHANGED <<oneCall, edits, provider, direct, cd, locals, history>>

\* lines 327-331: one iteration of the loop over the busy intervals
SweepSlot ==
    /\ pc = "free_sweep"
    /\ cal.i < Len(cal.busy_slots)
    /\ LET slot == cal.busy_slots[cal.i + 1]
           cursor == cal.window_start
           d == cal.duration_minutes
       IN cal' = [cal EXCEPT
                    !.i = @ + 1,
                    !.free_slots = IF Fits(cursor, d, slot.start)
                                   THEN Append(@, SlotAt(cursor, d, slot.start)) ELSE @,
                    !.window_start = Advance(cursor, slot.end),
                    !.cursors = Append(@, Advance(cursor, slot.end))]
    /\ UNCHANGED <<oneCall, edits, provider, direct, cd, pc, locals, history>>

\* lines 332-335: the check after the last busy interval, and the return
CheckAfterLast ==
    /\ pc = "free_sweep"
    /\ cal.i = Len(cal.busy_slots)
    /\ LET cursor == cal.window_start
           d == cal.duration_minutes
       IN cal' = [cal EXCEPT
                    !.free_slots = IF Fits(cursor, d, cal.end_date)
                                   THEN Append(@, SlotAt(cursor, d, cal.end_date)) ELSE @]
    /\ pc' = "free_done"
    /\ UNCHANGED <<oneCall, edits, provider, direct, cd, locals, history>>

NextFree ==
    \/ QueryBusy
    \/ SweepSlot
    \/ CheckAfterLast

SpecFree == InitFree /\ [][NextFree]_vars

\* The sweep of lines 325-335 reads the busy list as it is given, without
\* comparing it with the window: here the list is any list sorted by start, its
\* intervals anywhere on the time line, before, inside or after the window,
\* empty intervals (start = end) included.
AnyIntervals == {iv \in [start : 0..MaxTime, end : 0..MaxTime] : iv.start <= iv.end}
SortedBusyLists ==
    {b \in SeqsUpTo(AnyIntervals, MaxBusy) :
        \A i \in 1..(Len(b) - 1) : b[i].start <= b[i + 1].start}

\* lines 316-326 with a busy list of that kind
GivenBusy ==
    /\ pc = "free_query"
    /\ \E answer \in SortedBusyLists : cal' = [cal EXCEPT !.busy_slots = answer]
    /\ pc' = "free_sweep"
    /\ UNCHANGED <<oneCall, edits, provider, direct, cd, locals, history>>

NextSweep ==
    \/ GivenBusy
    \/ SweepSlot
    \/ CheckAfterLast

SpecSweep == InitFree /\ [][NextSweep]_vars

\* ----------------------------------------------------------- the edit tool
\* The tool edit_existing_draft, tools.py lines 172-212, called on a store that
\* holds one client-created draft.
ToolOverrides == Overrides \cup {[NoOverrides EXCEPT !.body = PyStr(LoneSurrogate)]}

\* result.startswith("Error editing draft"), line 199
StartsWithErrorEditing(result) ==
    result[2] \in {EditErrNotFound, EditErrNetwork, EditErrUpdate, EditErrNetworkUpdate,
                   EditErrOuter}

\* lines 199-212: the dict the tool returns
EditToolResult(result, draft_ids) ==
    IF StartsWithErrorEditing(result)
    THEN [error |-> result, draft_id |-> PyStr(draft_ids)]
    ELSE [draft |-> "Updated draft with ...", draft_id |-> result]

InitEditTool ==
    /\ user_email = "me@x.com"
    /\ unread = MsgIds
    /\ \E text \in Texts \cup PaddedTexts :
          drafts = (DraftNames[1] :>
                      create_draft_from_email([Inbox["m1"] EXCEPT !.draft = PyStr(text)],
                                              user_email, TRUE, TRUE, DraftNames[1]).message)
    /\ nextDraft = 1
    /\ InitLocals
    /\ InitTools
    /\ email = NewEmail
    /\ cd = NoCall
    /\ cal = NoSweep
    /\ edits = NoEdits
    /\ tool = [called |-> FALSE, name |-> "edit_existing_draft", n |-> 0]
    /\ msg = Idle
    /\ ev = Idle
    /\ pc = "edit_tool"

\* one call of the tool, lines 193-212
EditToolCall(draft_ids, ov, getOutcome, updateOutcome) ==
    /\ pc = "edit_tool"
    /\ tool.n < MaxToolEdits
    /\ LET out == edit_existing_draft(drafts, draft_ids, ov, getOutcome, updateOutcome)
       IN /\ drafts' = out.store
          /\ tool' = [called |-> TRUE, name |-> "edit_existing_draft", n |-> tool.n + 1,
                      draft_ids |-> draft_ids, ov |-> ov, result |-> out.ret,
                      updated |-> /\ out.calls = <<"drafts.get", "drafts.update">>
                                  /\ ProviderAnswer(drafts, draft_ids, updateOutcome) = "ok",
                      ret |-> EditToolResult(out.ret, draft_ids)]
    /\ UNCHANGED <<msg, ev, edits, cal, user_email, unread, nextDraft, direct, cd, pc,
                   locals, history>>

NextEditTool ==
    \E draft_ids \in {DraftNames[1], DraftNames[2]}, ov \in ToolOverrides, g \in Outcomes :
        \E u \in (IF g = "ok" THEN Outcomes ELSE {"ok"}) : EditToolCall(draft_ids, ov, g, u)

SpecEditTool == InitEditTool /\ [][NextEditTool]_vars

\* ------------------------------------------------------------- send_drafts
\* The tool send_drafts(draft_ids, confirmation), tools.py lines 150-170, called
\* on a store that holds client-created drafts.  The list the caller hands over
\* may name a draft twice and may name a draft the store does not hold.
HeldDrafts == {DraftNames[i] : i \in 1..MaxHeld}
SendableIds == {DraftNames[i] : i \in 1..(MaxHeld + 1)}
DraftIdLists == SeqsUpTo(SendableIds, MaxSend)

InitSend ==
    /\ user_email = "me@x.com"
    /\ unread = MsgIds
    /\ drafts = [d \in HeldDrafts |->
                   create_draft_from_email([Inbox["m1"] EXCEPT !.draft = PyStr("t1")],
                                           user_email, TRUE, TRUE, d).message]
    /\ nextDraft = MaxHeld
    /\ InitLocals
    /\ InitTools
    /\ email = [Inbox["m1"] EXCEPT !.draft = PyStr("t1"), !.draft_id = PyStr(DraftNames[1])]
    /\ cd = NoCall
    /\ cal = NoSweep
    /\ edits = NoEdits
    /\ InitCalls
    /\ pc = "send_call"

\* lines 150-166: the call; confirmation is a parameter the body never reads
SendDraftsCall(draft_ids, confirmation) ==
    /\ pc = "send_call"
    /\ tool' = [called |-> TRUE, name |-> "send_drafts", draft_ids |-> draft_ids,
                confirmation |-> confirmation, i |-> 1, status |-> <<>>,
                attempts |-> <<>>, returned |-> NotReturned]
    /\ pc' = "send_loop"
    /\ UNCHANGED <<msg, ev, edits, cal, provider, direct, cd, locals, history>>

\* lines 167-168: one iteration, status[draft_id] = g_client.send_draft(draft_id)
SendOne(outcome) ==
    /\ pc = "send_loop"
    /\ tool.i <= Len(tool.draft_ids)
    /\ LET id == tool.draft_ids[tool.i]
           out == send_draft(drafts, id, outcome)
       IN /\ drafts' = out.store
          /\ sent' = IF out.sent THEN sent \cup {id} ELSE sent
          /\ email' = [email EXCEPT !.status = StatusAfterSend(@, out.ret)]
          /\ tool' = [tool EXCEPT !.i = @ + 1,
                                  !.status = (id :> out.ret) @@ @,
                                  !.attempts = Append(@, [id |-> id, sent |-> out.sent])]
    /\ UNCHANGED <<msg, ev, edits, cal, user_email, unread, nextDraft, life, op, cd, pc,
                   locals, history>>

\* line 170: return status
SendReturn ==
    /\ pc = "send_loop"
    /\ tool.i > Len(tool.draft_ids)
    /\ tool' = [tool EXCEPT !.returned = [returned |-> TRUE, value |-> tool.status]]
    /\ pc' = "send_done"
    /\ UNCHANGED <<msg, ev, edits, cal, provider, direct, cd, locals, history>>

NextSend ==
    \/ \E draft_ids \in DraftIdLists, confirmation \in BOOLEAN :
          SendDraftsCall(draft_ids, confirmation)
    \/ \E outcome \in Outcomes : SendOne(outcome)
    \/ SendReturn

SpecSend == InitSend /\ [][NextSend]_vars

\* ----------------------------------------------- create_email_from_message
\* The raw message messages().get / drafts().get answers with, as
\* create_email_from_message reads it: the keys it looks up may be missing.
\* The Date header is whatever text the sender wrote; internalDate is the
\* provider's text.
DateTexts ==
    {"Mon, 01 Jan 2024 10:00:00 +0000", "garbage", "1 Jan 99999999999999999999 00:00:00 +0000"}
InternalDateTexts == {"1700000000000", "abc", "1000000000000000000000000000000"}

\* email.utils.parsedate_to_datetime: the datetime, or the exception it raises
parsedate_to_datetime(text) ==
    CASE text = "Mon, 01 Jan 2024 10:00:00 +0000" -> [raises |-> "none", value |-> <<"datetime", "2024-01-01T10:00:00+00:00">>]
      [] text = "garbage" -> [raises |-> "ValueError"]
      [] OTHER -> [raises |-> "OverflowError"]

\* datetime.fromtimestamp(int(text) / 1000): the datetime, or the exception raised
fromtimestamp_ms(text) ==
    CASE text = "1700000000000" -> [raises |-> "none", value |-> <<"datetime", "2023-11-14T22:13:20">>]
      [] text = "abc" -> [raises |-> "ValueError"]
      [] OTHER -> [raises |-> "OverflowError"]

\* lines 475 and 487: except (ValueError, TypeError)
Caught == {"ValueError", "TypeError"}

\* the try / except of parse_date and parse_internal_date around a conversion
Guarded(result) ==
    IF result.raises = "none" THEN [raises |-> "none", value |-> result.value]
    ELSE IF result.raises \in Caught THEN [raises |-> "none", value |-> PyNone]
    ELSE [raises |-> result.raises]

\* lines 466-476
parse_date(date_string) ==
    IF date_string = "" THEN [raises |-> "none", value |-> PyNone]
    ELSE Guarded(parsedate_to_datetime(date_string))

\* lines 478-488
parse_internal_date(internal_date) ==
    IF internal_date = "" THEN [raises |-> "none", value |-> PyNone]
    ELSE Guarded(fromtimestamp_ms(internal_date))

\* the header block of a payload: the names of the headers it holds and their
\* texts (a header the block does not hold has no text to read)
HeaderBlock(names, date) ==
    [names |-> names, Subject |-> <<"Hello">>, From |-> Angle("N", "a@x.com"),
     To |-> <<Bare("me@x.com"), EmptyStr, Angle("N", "a@x.com")>>, Date |-> date]
HeaderBlocks ==
    {HeaderBlock(names, date) :
        names \in SUBSET {"Subject", "From", "To"}, date \in {""}}
    \cup {HeaderBlock(names \cup {"Date"}, date) :
        names \in SUBSET {"Subject", "From", "To"}, date \in DateTexts}
NoHeaders == HeaderBlock({}, "")

\* full_msg: with or without a payload, the payload with or without a header
\* block, with or without internalDate
RawMessages ==
    {[hasPayload |-> FALSE, hasHeaders |-> FALSE, headers |-> NoHeaders, internalDate |-> i] :
        i \in InternalDateTexts \cup {""}}
    \cup {[hasPayload |-> TRUE, hasHeaders |-> FALSE, headers |-> NoHeaders, internalDate |-> i] :
        i \in InternalDateTexts \cup {""}}
    \cup {[hasPayload |-> TRUE, hasHeaders |-> TRUE, headers |-> h, internalDate |-> i] :
        h \in HeaderBlocks, i \in InternalDateTexts \cup {""}}

\* header_dict.get(name, default), lines 222-231
HeaderGet(raw, name, default) ==
    IF raw.hasPayload /\ raw.hasHeaders /\ name \in raw.headers.names
    THEN raw.headers[name] ELSE default

\* lines 206-248, the whole call: the Email built, or the exception that escapes
create_email_from_message(raw) ==
    LET date == HeaderGet(raw, "Date", "")
        sent_date == parse_date(date)
        received_date == parse_internal_date(raw.internalDate)
    IN  IF sent_date.raises # "none" THEN [raises |-> sent_date.raises]
        ELSE IF received_date.raises # "none" THEN [raises |-> received_date.raises]
        ELSE [raises |-> "none",
              email |-> EmailFrom("m1", HeaderGet(raw, "Subject", <<>>),
                                  HeaderGet(raw, "From", EmptyStr),
                                  parse_email_list(HeaderGet(raw, "To", <<>>)), <<>>, <<>>),
              date |-> date,
              sent_date |-> sent_date.value,
              received_date |-> received_date.value]

InitParse ==
    /\ user_email = "me@x.com"
    /\ InitProvider
    /\ InitLocals
    /\ InitTools
    /\ email = NewEmail
    /\ cd = NoCall
    /\ cal = NoSweep
    /\ edits = NoEdits
    /\ tool = Idle
    /\ ev = Idle
    /\ \E raw \in RawMessages : msg = [called |-> FALSE, raw |-> raw]
    /\ pc = "parse"

\* one create_email_from_message call on the raw message
ParseMessage ==
    /\ pc = "parse"
    /\ ~msg.called
    /\ msg' = [called |-> TRUE, raw |-> msg.raw, out |-> create_email_from_message(msg.raw)]
    /\ UNCHANGED <<tool, ev, edits, cal, provider, direct, cd, pc, locals, history>>

SpecParse == InitParse /\ [][ParseMessage]_vars

\* ---------------------------------------------------- extract_body_content
\* A text is a sequence of characters.  A part's body data is base64url text:
\* B64(text) stands for the encoding of text, BadData for data that does not
\* decode, NoData for a part without body data.
NoData == <<"none">>
BadData == <<"bad">>
B64(text) == <<"b64">> \o text

\* lines 523-537: the decoded text, '' when decoding raises
decode_base64(data) == IF data[1] = "b64" THEN Tail(data) ELSE <<>>

\* str.strip() on a text
RECURSIVE lstrip(_)
lstrip(text) == IF text # <<>> /\ Head(text) = " " THEN lstrip(Tail(text)) ELSE text
RECURSIVE rstrip(_)
rstrip(text) ==
    IF text # <<>> /\ text[Len(text)] = " " THEN rstrip(SubSeq(text, 1, Len(text) - 1)) ELSE text
strip_text(text) == rstrip(lstrip(text))

Leaf(mimeType, data) == [mimeType |-> mimeType, data |-> data, hasParts |-> FALSE, parts |-> <<>>]
Container(mimeType, parts) == [mimeType |-> mimeType, data |-> NoData, hasParts |-> TRUE, parts |-> parts]

PlainA == Leaf("text/plain", B64(<<"a", " ">>))
PlainB == Leaf("text/plain", B64(<<"b">>))
HtmlPart == Leaf("text/html", B64(<<"h">>))
Leaves ==
    {PlainA, PlainB, HtmlPart, Leaf("image/png", B64(<<"x">>)), Leaf("text/plain", BadData),
     Leaf("text/html", NoData)}
\* parts with children: a multipart container, and an attached message
\* (message/rfc822), whose type is not multipart
Nested ==
    {Container("multipart/alternative", <<PlainB, HtmlPart>>),
     Container("message/rfc822", <<PlainA>>)}
RECURSIVE Wrap(_, _)
Wrap(part, n) == IF n = 0 THEN part ELSE Container("multipart/mixed", <<Wrap(part, n - 1)>>)
Parts == {Wrap(part, n) : part \in Leaves \cup Nested, n \in 0..MaxNest}
\* payloads: one with a parts list, one that is a single part, and the empty one
Payloads ==
    {Container("multipart/mixed", parts) : parts \in SeqsUpTo(Parts, MaxParts)}
    \cup Leaves \cup {Leaf("", NoData)}

IsMultipart(mimeType) == mimeType \in {"multipart/mixed", "multipart/alternative"}

\* mutant: a multipart part is skipped instead of descended into
process_part_flat(part, acc) ==
    IF part.mimeType = "text/plain" /\ part.data # NoData
    THEN [acc EXCEPT !.text_body = @ \o decode_base64(part.data)]
    ELSE IF part.mimeType = "text/html" /\ part.data # NoData
    THEN [acc EXCEPT !.html_body = @ \o decode_base64(part.data)]
    ELSE acc

\* lines 495-511: process_part, with the two accumulators it appends to
RECURSIVE process_part(_, _)
process_part(part, acc) ==
    LET RECURSIVE each(_, _)
        each(parts, a) ==
            IF parts = <<>> THEN a ELSE each(Tail(parts), process_part(Head(parts), a))
    IN  IF part.mimeType = "text/plain"
        THEN IF part.data # NoData
             THEN [acc EXCEPT !.text_body = @ \o decode_base64(part.data)] ELSE acc
        ELSE IF part.mimeType = "text/html"
        THEN IF part.data # NoData
             THEN [acc EXCEPT !.html_body = @ \o decode_base64(part.data)] ELSE acc
        ELSE IF IsMultipart(part.mimeType) THEN each(part.parts, acc)
        ELSE acc

\* lines 490-521: the top level iterates the parts list when the payload has one
\* and takes the payload as the only part otherwise; both texts are stripped
extract_body_parts(payload) ==
    LET RECURSIVE each(_, _)
        each(parts, a) ==
            IF parts = <<>> THEN a ELSE each(Tail(parts), process_part(Head(parts), a))
        start == [text_body |-> <<>>, html_body |-> <<>>]
        acc == IF payload.hasParts THEN each(payload.parts, start)
               ELSE process_part(payload, start)
    IN  [body_text |-> strip_text(acc.text_body), body_html |-> strip_text(acc.html_body)]

InitBody ==
    /\ user_email = "me@x.com"
    /\ InitProvider
    /\ InitLocals
    /\ InitTools
    /\ email = NewEmail
    /\ cd = NoCall
    /\ cal = NoSweep
    /\ edits = NoEdits
    /\ tool = Idle
    /\ ev = Idle
    /\ \E payload \in Payloads : msg = [called |-> FALSE, payload |-> payload]
    /\ pc = "body"

\* one extract_body_content call on the payload
ExtractBody ==
    /\ pc = "body"
    /\ ~msg.called
    /\ msg' = [called |-> TRUE, payload |-> msg.payload, out |-> extract_body_parts(msg.payload)]
    /\ UNCHANGED <<tool, ev, edits, cal, provider, direct, cd, pc, locals, history>>

SpecBody == InitBody /\ [][ExtractBody]_vars

\* ----------------------------------------------------------- _raw_to_event
\* Event.__init__ defaults, events.py lines 38-44 (timing) and 28
NewEvent ==
    [id |-> "", start_time |-> PyNone, end_time |-> PyNone, start_date |-> "",
     end_date |-> "", is_all_day |-> FALSE, timezone |-> ""]

\* An RFC 3339 instant as the provider writes it: an hour of the day and a zone
\* suffix.  A date is a day of the month.
DayNames == <<"2024-01-01", "2024-01-02", "2024-01-03", "2024-01-04", "2024-01-05",
              "2024-01-06", "2024-01-07">>

\* datetime.fromisoformat(text.replace('Z', '+00:00'))
fromisoformat_z(text) ==
    <<"datetime", text.hour, IF text.zone = "Z" THEN "+00:00" ELSE text.zone>>

\* the 'start' / 'end' object of a raw event: the keys it holds and their values
TimedPoint(hour, zone, keys) ==
    [keys |-> keys, dateTime |-> [hour |-> hour, zone |-> zone], date |-> "", timeZone |-> "UTC"]
AllDayPoint(day) ==
    [keys |-> {"date"}, dateTime |-> [hour |-> 0, zone |-> "Z"], date |-> DayNames[day + 1],
     timeZone |-> ""]

\* The events events().list answers with (singleEvents, no deleted events): start
\* and end are both instants, with or without a timeZone, or both dates.
RawEvents ==
    {[id |-> "e1", start |-> TimedPoint(a, z, keys), end |-> TimedPoint(b, z, keys)] :
        a \in 0..MaxTime, b \in 0..MaxTime, z \in {"Z", "+00:00", "-05:00"},
        keys \in {{"dateTime"}, {"dateTime", "timeZone"}}}
    \cup {[id |-> "e1", start |-> AllDayPoint(a), end |-> AllDayPoint(b)] :
        a \in 0..MaxTime, b \in 1..(MaxTime + 1)}

\* lines 124-130
StartFields(event, start) ==
    IF "dateTime" \in start.keys
    THEN [event EXCEPT !.start_time = fromisoformat_z(start.dateTime),
                       !.timezone = IF "timeZone" \in start.keys THEN start.timeZone ELSE "",
                       !.is_all_day = FALSE]
    ELSE IF "date" \in start.keys
    THEN [event EXCEPT !.start_date = start.date, !.is_all_day = TRUE]
    ELSE event

\* mutant: the end of the event is not read
EndFields_skip(event, end) == event

\* lines 132-135
EndFields(event, end) ==
    IF "dateTime" \in end.keys
    THEN [event EXCEPT !.end_time = fromisoformat_z(end.dateTime)]
    ELSE IF "date" \in end.keys
    THEN [event EXCEPT !.end_date = end.date]
    ELSE event

\* lines 107-136: the identifiers and the timing of the Event
raw_to_event(raw_event) ==
    EndFields(StartFields([NewEvent EXCEPT !.id = raw_event.id], raw_event.start), raw_event.end)

InitEvent ==
    /\ user_email = "me@x.com"
    /\ InitProvider
    /\ InitLocals
    /\ InitTools
    /\ email = NewEmail
    /\ cd = NoCall
    /\ cal = NoSweep
    /\ edits = NoEdits
    /\ tool = Idle
    /\ msg = Idle
    /\ \E raw_event \in RawEvents : ev = [called |-> FALSE, raw_event |-> raw_event]
    /\ pc = "event"

\* one _raw_to_event call
RawToEvent ==
    /\ pc = "event"
    /\ ~ev.called
    /\ ev' = [called |-> TRUE, raw_event |-> ev.raw_event, event |-> raw_to_event(ev.raw_event)]
    /\ UNCHANGED <<tool, msg, edits, cal, provider, direct, cd, pc, locals, history>>

SpecEvent == InitEvent /\ [][RawToEvent]_vars

\* ------------------------------------------------------------ the claims
Answered(i) == genCalls[i].answer # GeneratorFails
NAnswered == Cardinality({i \in 1..Len(genCalls) : Answered(i)})
StepOrder == <<"attach", "create", "record", "mark">>
IsMark(i) == log[i].step = "mark"

\* C1: a draft creation (step 2) or a mark-as-processed call (step 4) that fails
\* never ends the run: the run raises only at the top of an iteration, with the
\* four steps of every answered generation done, and a run that returns has
\* generated and done steps 1-4 for every entry of the selection.
C1_FailureDoesNotAbort ==
    /\ pc = "raised" => Len(log) = 4 * NAnswered
    /\ pc = "done" =>
          /\ returned.returned
          /\ Len(genCalls) = Len(email_ids_from_llm)
          /\ Len(log) = 4 * Len(email_ids_from_llm)

C1_Witness ==
    /\ pc = "done"
    /\ Len(log) = 8
    /\ ~log[2].created
    /\ ~log[4].ack

\* C2 as claimed: the returned mapping has an entry for exactly the ids passed to
\* generation, and for no other id.
C2_ExactlyGenerated ==
    pc = "done" => DOMAIN returned.value = {genCalls[i].id : i \in 1..Len(genCalls)}

\* C2 as amended: the returned mapping has one entry per id of the batch, and the
\* entries carrying a draft_id are exactly those of the ids passed to generation,
\* whether or not their draft creation failed.
C2_OneEntryPerBatchId ==
    pc = "done" =>
        /\ DOMAIN returned.value = Range(email_ids)
        /\ {id \in DOMAIN returned.value : "draft_id" \in DOMAIN returned.value[id]}
              = {genCalls[i].id : i \in 1..Len(genCalls)}

C2_Witness ==
    /\ pc = "done"
    /\ Len(email_ids) = 2
    /\ Len(genCalls) = 1
    /\ ~log[2].created

\* C3: the steps after an answered generation run in the order attach, create,
\* record, mark, one iteration after the other: create receives the Email with
\* the draft text attached, and the id recorded is the value create returned.
C3_StepOrder ==
    /\ \A i \in 1..Len(log) :
          /\ log[i].step = StepOrder[((i - 1) % 4) + 1]
          /\ log[i].entry = ((i - 1) \div 4) + 1
          /\ log[i].id = email_ids_from_llm[log[i].entry]
          /\ log[i].entry <= NAnswered
    /\ pc = "record" =>
          cd.called /\ cd.email.id = CurrentId /\ cd.email.draft = draft_response
    /\ pc = "mark" => cd.called /\ email_objs[CurrentId].draft_id = cd.out.ret

C3_Witness == Len(log) = 8 /\ log[6].created

\* C4 as claimed: when the run returns, every message whose generation was
\* answered has lost its UNREAD label.
C4_AlwaysMarked ==
    pc = "done" => \A i \in 1..Len(genCalls) : genCalls[i].id \notin unread

\* C4 as amended: when the run ends, for every message whose generation was
\* answered the mark-as-processed call has been issued, and the message has lost
\* its UNREAD label exactly when the provider accepted one such call.
C4_MarkIssued ==
    pc \in {"done", "raised"} =>
        \A i \in 1..Len(genCalls) : Answered(i) =>
            /\ \E j \in 1..Len(log) : IsMark(j) /\ log[j].entry = genCalls[i].entry
            /\ genCalls[i].id \notin unread
                  <=> \E j \in 1..Len(log) : IsMark(j) /\ log[j].id = genCalls[i].id /\ log[j].ack

C4_Witness ==
    /\ pc = "done"
    /\ Len(log) = 8
    /\ log[4].ack
    /\ ~log[8].ack
    /\ log[4].id # log[8].id

C6_MalformedFiltered ==
    /\ \A i \in 1..Len(genCalls) : genCalls[i].id \in Range(email_ids)
    /\ ~(pc = "raised" /\ k >= 1 /\ email_ids_from_llm[k] \notin Range(email_ids))

\* C9: an Email's draft_id is empty, or the id of a draft the provider created
\* for that message.
C9_DraftIdOnlyAfterCreate ==
    \A id \in DOMAIN email_objs :
        email_objs[id].draft_id # PyStr("") =>
            /\ email_objs[id].draft_id[2] \in DOMAIN drafts
            /\ drafts[email_objs[id].draft_id[2]].in_reply_to = id

IsUser(x) == extract_email_only(x) = Bare(cd.user)

C8_NoRecipients ==
    (/\ cd.called
     /\ cd.out.resolved
     /\ \A i \in 1..Len(cd.email.to) : IsUser(cd.email.to[i])
     /\ cd.email.from_address \in {Bare(cd.user), EmptyStr})
    => /\ cd.out.ret = PyStr(NoRecipientsMsg)
       /\ ~cd.out.created
       /\ "drafts.create" \notin Range(cd.out.calls)
       /\ drafts = <<>>

C11_StatusOnlyAfterSend ==
    [][email'.status # email.status =>
          /\ email.status = ""
          /\ email'.status = "sent"
          /\ op'.name = "send"
          /\ op'.ret = PyTrue
          /\ cd.called
          /\ cd.out.created
          /\ op'.id = cd.out.ret[2]]_vars

\* a Message whose draft was created, edited and sent, and a later send that failed
C11_Witness ==
    /\ cd.called
    /\ cd.out.created
    /\ cd.email.id = email.id
    /\ life[cd.out.ret[2]] = <<"created", "edited", "sent">>
    /\ op.name = "send"
    /\ op.ret = PyFalse
    /\ email.status = ""

\* C12: after an edit that succeeded, each of body, subject, to, cc, bcc whose
\* override was empty has the value the draft had before the edit (the recipient
\* lists compared entry by entry, as the parser reads them), and each field with
\* a non-empty override has the override's value.
C12_EditIsPatch ==
    (op.name = "edit" /\ op.ret = PyStr(op.id)) =>
        LET new == drafts[op.id]
            old == op.before
        IN  /\ new.body = Patched(op.ov.body, old.body, PyStr(""))
            /\ new.subject = Patched(op.ov.subject, old.subject, <<>>)
            /\ parse_email_list(new.to) = Patched(op.ov.to, parse_email_list(old.to), <<>>)
            /\ parse_email_list(new.cc) = Patched(op.ov.cc, parse_email_list(old.cc), <<>>)
            /\ parse_email_list(new.bcc) = Patched(op.ov.bcc, parse_email_list(old.bcc), <<>>)

\* why an edit failed: the round trip itself failed, the draft to fetch is not in
\* the store, or the provider rejected the fetch or the update of a draft it holds
EditCause ==
    IF op.get = "other" THEN "NetworkError"
    ELSE IF ~op.held THEN "DraftNotFound"
    ELSE IF op.get = "http" THEN "ProviderError"
    ELSE IF op.update = "other" THEN "NetworkError"
    ELSE "ProviderError"

\* C13: an edit that failed reports the failure kind of its cause: DraftNotFound
\* when the draft to fetch is not in the store, ProviderError when the provider
\* rejected the fetch or the update, NetworkError when the round trip failed.
C13_DistinctKinds ==
    (op.name = "edit" /\ op.ret # PyStr(op.id)) => EditKind(op.ret[2]) = EditCause

\* C14: a create call and a send call make exactly one round trip to the
\* provider each; an edit call makes the fetch and then the update, two round
\* trips when it succeeds and never more when it fails.
C14_RoundTrips ==
    /\ cd.called => Len(cd.out.calls) = 1
    /\ op.name = "send" => Len(op.calls) = 1
    /\ op.name = "edit" =>
          /\ op.calls \in {<<"drafts.get">>, <<"drafts.get", "drafts.update">>}
          /\ op.ret = PyStr(op.id) => Len(op.calls) = 2

\* the busy list is in ascending order of start, the documented precondition
SortedByStart(busy) ==
    \A i, j \in 1..Len(busy) : i < j => busy[i].start <= busy[j].start
\* half-open intervals [start, end) that share an instant
Intersect(a, b) == a.start < b.end /\ b.start < a.end

C16_SlotsAvoidBusy ==
    (cal.called /\ SortedByStart(cal.busy_slots)) =>
        /\ \A s \in Range(cal.free_slots), b \in Range(cal.busy_slots) : ~Intersect(s, b)
        /\ \A i \in 1..(Len(cal.cursors) - 1) : cal.cursors[i] <= cal.cursors[i + 1]

\* a busy interval nested in the one before it, with a slot on either side
C16_Witness ==
    /\ pc = "free_done"
    /\ Len(cal.busy_slots) = 2
    /\ cal.busy_slots[1].start < cal.busy_slots[2].start
    /\ cal.busy_slots[2].end < cal.busy_slots[1].end
    /\ Len(cal.free_slots) = 2

ReportedOutcome(entry) ==
    IF "draft_id" \notin DOMAIN entry THEN "not classified"
    ELSE IF entry["draft_id"] \in {PyFalse, PyStr(NoRecipientsMsg)} THEN "draft failed"
    ELSE "drafted"

\* what happened to a message of the batch: never passed to generation, or the
\* outcome of the last draft creation attempted for it
CreatesOf(id) == {i \in 1..Len(log) : log[i].step = "create" /\ log[i].id = id}
LastCreateOf(id) == CHOOSE i \in CreatesOf(id) : \A j \in CreatesOf(id) : j <= i
ActualOutcome(id) ==
    IF CreatesOf(id) = {} THEN "not classified"
    ELSE IF log[LastCreateOf(id)].created THEN "drafted"
    ELSE "draft failed"

Attached(id) == email_objs[id].draft # PyStr("")
DraftCreated(id) == \E d \in DOMAIN drafts : drafts[d].in_reply_to = id
IdRecorded(id) == email_objs[id].draft_id # PyStr("")
Processed(id) == id \notin unread

\* C19: when a run has ended, by returning or by raising, every message of the
\* batch has had all four effects (draft text attached, provider draft created,
\* draft id recorded, marked as processed) or none of them.
C19_AllOrNothing ==
    pc \in {"done", "raised"} =>
        \A id \in DOMAIN email_objs :
            \/ Attached(id) /\ DraftCreated(id) /\ IdRecorded(id) /\ Processed(id)
            \/ ~Attached(id) /\ ~DraftCreated(id) /\ ~IdRecorded(id) /\ ~Processed(id)

\* C20: edits of one draft that interleave never fail because of the
\* interleaving (a call returns an error text only when the provider failed one
\* of its own round trips), and the draft's content is exactly the payload of the
\* update that executed last: the message that call built from the version it
\* had fetched and its own overrides.
C20_LastWriterWins ==
    edits.called =>
        /\ \A e \in Editors :
              edits.ed[e].pc = "returned" =>
                 (edits.ed[e].ret = PyStr(RaceDraft)
                     <=> (edits.ed[e].get = "ok" /\ edits.ed[e].update = "ok"))
        /\ edits.writes # <<>> =>
              LET last == edits.writes[Len(edits.writes)]
              IN  /\ drafts[RaceDraft] = last.payload
                  /\ last.payload = EditedMessage(edits.ed[last.editor].draft_obj,
                                                  edits.ed[last.editor].ov)

\* both calls fetched the same version and both updates were accepted: the body
\* the first update wrote is gone from the draft
C20_Witness ==
    /\ edits.called
    /\ Len(edits.writes) = 2
    /\ \A e \in {edits.writes[1].editor, edits.writes[2].editor} :
          edits.ed[e].ret = PyStr(RaceDraft)
    /\ edits.writes[1].editor # edits.writes[2].editor
    /\ edits.ed[edits.writes[2].editor].draft_obj # edits.writes[1].payload
    /\ edits.writes[1].payload.body = PyStr("t9")
    /\ drafts[RaceDraft].body # PyStr("t9")

IsSendDrafts == tool.called /\ tool.name = "send_drafts"
SendAttempts(id) == {j \in 1..Len(tool.attempts) : tool.attempts[j].id = id}
ProviderSent(id) == \E j \in SendAttempts(id) : tool.attempts[j].sent

\* C21: the mapping send_drafts returns has one entry per requested draft id,
\* True exactly when the provider sent that draft in the call and False
\* otherwise; every id of the list is attempted, in order, whatever the earlier
\* attempts did; and no send writes the Message's status.
C21_SendReport ==
    (IsSendDrafts /\ pc = "send_done") =>
        LET value == tool.returned.value IN
        /\ DOMAIN value = Range(tool.draft_ids)
        /\ \A id \in DOMAIN value :
              /\ value[id] \in {PyTrue, PyFalse}
              /\ value[id] = PyTrue <=> ProviderSent(id)
        /\ Len(tool.attempts) = Len(tool.draft_ids)
        /\ \A j \in 1..Len(tool.attempts) : tool.attempts[j].id = tool.draft_ids[j]
        /\ email.status = ""

\* C26: a send_drafts call whose confirmation argument is false issues no
\* provider send call.
C26_NoSendUnconfirmed ==
    (IsSendDrafts /\ ~tool.confirmation) => tool.attempts = <<>>

\* C22: create_email_from_message returns an Email for every raw message and
\* never raises; the subject, the sender and the To list are empty when their
\* header is missing, and sent_date / received_date are None when the Date
\* header / internalDate is missing or cannot be converted.
C22_ParseTotal ==
    (pc = "parse" /\ msg.called) =>
        /\ msg.out.raises = "none"
        /\ HeaderGet(msg.raw, "Subject", <<>>) = <<>> => msg.out.email.subject = <<>>
        /\ HeaderGet(msg.raw, "From", EmptyStr) = EmptyStr =>
              msg.out.email.from_email = EmptyStr /\ msg.out.email.from_address = EmptyStr
        /\ HeaderGet(msg.raw, "To", <<>>) = <<>> => msg.out.email.to = <<>>
        /\ HeaderGet(msg.raw, "Date", "") \notin {"Mon, 01 Jan 2024 10:00:00 +0000"} =>
              msg.out.sent_date = PyNone
        /\ msg.raw.internalDate \notin {"1700000000000"} => msg.out.received_date = PyNone

\* the decoded contents of the parts of one type, concatenated in depth-first
\* order: a part of the type gives its content, a multipart container what its
\* children give, in their order, and any other part nothing
RECURSIVE ContentOf(_, _)
ContentOf(part, type) ==
    LET RECURSIVE all(_)
        all(parts) == IF parts = <<>> THEN <<>> ELSE ContentOf(Head(parts), type) \o all(Tail(parts))
    IN  IF part.mimeType = type THEN decode_base64(part.data)
        ELSE IF IsMultipart(part.mimeType) THEN all(part.parts)
        ELSE <<>>
PayloadContent(payload, type) ==
    ContentOf(IF payload.hasParts THEN Container("multipart/mixed", payload.parts) ELSE payload,
              type)

\* C23 as stated: plain_body is the depth-first concatenation of the decoded
\* text/plain parts and html_body that of the text/html parts.
C23_BodyIsConcatenation ==
    (pc = "body" /\ msg.called) =>
        /\ msg.out.body_text = PayloadContent(msg.payload, "text/plain")
        /\ msg.out.body_html = PayloadContent(msg.payload, "text/html")

\* C23, amended: plain_body is the depth-first concatenation of the decoded
\* text/plain parts, html_body that of the text/html parts, each with its
\* leading and trailing white space removed; parts of other types contribute
\* nothing; parts [html, plain, plain] give the html part and the two plain
\* parts in order.
C23_BodyIsTrimmedConcatenation ==
    (pc = "body" /\ msg.called) =>
        /\ msg.out.body_text = strip_text(PayloadContent(msg.payload, "text/plain"))
        /\ msg.out.body_html = strip_text(PayloadContent(msg.payload, "text/html"))
        /\ msg.payload.parts = <<HtmlPart, PlainA, PlainB>> =>
              /\ msg.out.body_html = <<"h">>
              /\ msg.out.body_text = <<"a", " ", "b">>

\* a payload whose plain parts sit at different depths, behind an html part
C23_Witness ==
    /\ pc = "body"
    /\ msg.called
    /\ msg.payload.parts = <<HtmlPart, Wrap(PlainA, 1), Wrap(Container("multipart/alternative", <<PlainB, HtmlPart>>), 1)>>
    /\ msg.out.body_text = <<"a", " ", "b">>
    /\ msg.out.body_html = <<"h", "h">>

\* an address-header entry without its display-name wrapper
Unwrapped(x) == IF x.angle THEN Bare(x.addr) ELSE x
\* res is src without the entries equal to u: the entries kept stand in their
\* original order, each as often as src holds it
KeptIn(src, u) == {i \in 1..Len(src) : src[i] # u}
IsRest(res, src, u) ==
    /\ Len(res) = Cardinality(KeptIn(src, u))
    /\ \A i \in KeptIn(src, u) : res[Cardinality({j \in KeptIn(src, u) : j <= i})] = src[i]

C27_OncePerMessage ==
    \A id \in MsgIds :
        /\ Cardinality({i \in 1..Len(genCalls) : genCalls[i].id = id}) <= 1
        /\ Cardinality({d \in DOMAIN drafts : drafts[d].in_reply_to = id}) <= 1

\* C28: every slot find_free_time emits lies inside the requested window, for
\* every busy list sorted by start, intervals outside the window included.
C28_SlotsInsideWindow ==
    cal.called =>
        \A j \in 1..Len(cal.free_slots) :
            /\ cal.start_date <= cal.free_slots[j].start
            /\ cal.free_slots[j].end <= cal.end_date

\* C29: the slots find_free_time emits are in strictly ascending start order
\* and pairwise disjoint, each starting at or after the end of the one before,
\* for every busy list sorted by start whose intervals have start <= end.
C29_SlotsAscendingDisjoint ==
    cal.called =>
        \A j \in 1..(Len(cal.free_slots) - 1) :
            /\ cal.free_slots[j].start < cal.free_slots[j + 1].start
            /\ cal.free_slots[j].end <= cal.free_slots[j + 1].start

\* three slots: before an empty interval, between it and the next interval, and
\* after the last one
C29_Witness ==
    /\ pc = "free_done"
    /\ Len(cal.free_slots) = 3
    /\ Len(cal.busy_slots) = 2
    /\ cal.busy_slots[1].start = cal.busy_slots[1].end

IsEditTool == tool.called /\ tool.name = "edit_existing_draft"
ClientFailureTexts ==
    {PyStr(t) : t \in {EditErrNotFound, EditErrNetwork, EditErrUpdate, EditErrNetworkUpdate,
                       EditErrOuter, EditErrUnexpected}}

\* C30: the edit tool's result has an 'error' entry whenever the client's call
\* did not update the draft on the provider, has a 'draft_id' and no 'error'
\* only when the provider update succeeded, and never carries a failure text of
\* the client as the draft id.
C30_EditToolReportsFailure ==
    IsEditTool =>
        /\ ~tool.updated => "error" \in DOMAIN tool.ret
        /\ ("draft_id" \in DOMAIN tool.ret /\ "error" \notin DOMAIN tool.ret) => tool.updated
        /\ tool.ret.draft_id \notin ClientFailureTexts
====
